---------------------------- MODULE Spec2Model ----------------------------
(***************************************************************************)
(* A model of support.py, the data-access layer over the Domestic Load     *)
(* Research database: the group-hierarchy reconstruction (getGroups), the  *)
(* identifier resolver (getProfileID, getAnswerID), the metadata filter    *)
(* (getMetaProfiles), the monthly batch assembler (getProfiles), the date  *)
(* range selection (profilePeriod) and the anonymisation pass (anonAns).   *)
(*                                                                         *)
(* A DataFrame is a sequence of records (its rows, in row order); a        *)
(* database table is such a sequence, fixed for the length of a behaviour  *)
(* because the program only reads the database.  A text value is a         *)
(* sequence of one-character strings, so that str() and strip() are        *)
(* computed and not assumed.                                               *)
(***************************************************************************)
EXTENDS Integers, Sequences, FiniteSets, TLC

VARIABLES
    db,        \* the database: table name -> rows (read-only to the program)
    files,     \* the data directory: file name -> rows (rule CSVs in, feather files out)
    call,      \* the call in progress or last made: [fn |-> .., its arguments]
    pc,        \* where the call stands: "idle" before it, a loop position, "done", "raised"
    local,     \* the local variables of a call that runs in steps
    ret,       \* what the last call returned: [kind |-> .., rows |-> ..]
    stdout     \* what the call in progress or last made has printed

vars == <<db, files, call, pc, local, ret, stdout>>

-----------------------------------------------------------------------------
(* Bounds of the model.                                                    *)

NGroups == 5        \* rows of the Groups table in SpecGroups
MaxYear == 3        \* the years a caller asks for are 1..MaxYear
NLoc == 2           \* location groups of the tree in SpecIDs
NProf == 3          \* rows of the profiles table in SpecMeta
NUnits == 3         \* unit-of-measurement codes in SpecMeta
MaxFail == 1        \* monthly fetches that fail in one getProfiles call (or all do)
NAns == 2           \* answer records in SpecAnon
MaxRules == 2       \* rows of the blob rule file in SpecAnon
NDays == 3          \* days the profile data may fall on in SpecPeriod
LastSlot == 2       \* readings per day are at slots 0 (00:00) .. LastSlot (23:55)
MaxRows == 3        \* rows of the dataframe given to profilePeriod
MaxLinks == 2       \* rows of the LinkTable in SpecIDs

(* Python's None (a missing year argument) and pandas' NaN (a missing      *)
(* ParentID) are values outside the identifiers, which are >= 0.           *)
None == -1
NaN == -2

-----------------------------------------------------------------------------
(* Text.                                                                   *)

Digit == <<"0", "1", "2", "3", "4", "5", "6", "7", "8", "9">>

(* str(n) of a non-negative integer: its decimal digits.                   *)
RECURSIVE str(_)
str(n) == IF n < 10 THEN <<Digit[n + 1]>>
          ELSE str(n \div 10) \o <<Digit[(n % 10) + 1]>>

RECURSIVE lstrip(_)
lstrip(s) == IF s # <<>> /\ Head(s) = " " THEN lstrip(Tail(s)) ELSE s

RECURSIVE rstrip(_)
rstrip(s) == IF s # <<>> /\ s[Len(s)] = " "
             THEN rstrip(SubSeq(s, 1, Len(s) - 1)) ELSE s

(* x.strip()                                                               *)
strip(s) == rstrip(lstrip(s))

-----------------------------------------------------------------------------
(* DataFrame helpers.  A row is a record, a DataFrame a sequence of rows.  *)

RECURSIVE Flatten(_)
Flatten(ss) == IF ss = <<>> THEN <<>> ELSE Head(ss) \o Flatten(Tail(ss))

(* The values of one column, as a set (what isin() tests against).         *)
Values(df, Col(_)) == {Col(df[i]) : i \in DOMAIN df}

(* pd.merge(left, right, left_on=.., right_on=.., how=..): for every left  *)
(* row in order, one output row per matching right row; with how='left' a  *)
(* left row without a match is kept once, joined to the all-NaN right row. *)
Merge(left, right, Match(_, _), Combine(_, _), how, nanRight) ==
    Flatten([i \in DOMAIN left |->
        LET ms == SelectSeq(right, LAMBDA r : Match(left[i], r))
        IN  IF ms # <<>> THEN [j \in DOMAIN ms |-> Combine(left[i], ms[j])]
            ELSE IF how = "left" THEN <<Combine(left[i], nanRight)>>
            ELSE <<>>])

(* The text a missing GroupName shows as after a left join.                *)
NaNName == <<"NaN">>

-----------------------------------------------------------------------------
(* getGroups                                                               *)

(* groups['ParentID'].fillna(0), .astype('int64'); GroupName stripped.     *)
NormGroups(G) ==
    [i \in DOMAIN G |->
        [GroupID   |-> G[i].GroupID,
         ParentID  |-> IF G[i].ParentID = NaN THEN 0 ELSE G[i].ParentID,
         GroupName |-> strip(G[i].GroupName),
         ContextID |-> G[i].ContextID]]

(* groups[groups['ParentID'] == 0]                                         *)
Level1(groups) == SelectSeq(groups, LAMBDA r : r.ParentID = 0)

(* groups[groups['ParentID'].isin(above['GroupID'])]                       *)
LevelBelow(groups, above) ==
    SelectSeq(groups, LAMBDA r : r.ParentID \in Values(above, LAMBDA a : a.GroupID))

groups_level_1(groups) == Level1(groups)
groups_level_2(groups) == LevelBelow(groups, groups_level_1(groups))
groups_level_3(groups) == LevelBelow(groups, groups_level_2(groups))
(* A slip of one level in the last partition step.                         *)
groups_level_4_off(groups) == LevelBelow(groups, groups_level_2(groups))
groups_level_4(groups) == LevelBelow(groups, groups_level_3(groups))

(* The right-hand row of a left join that found no match.                  *)
NaNGroup == [GroupID |-> NaN, ParentID |-> NaN, GroupName |-> NaNName, ContextID |-> NaN]

(* recon3: level-4 rows left-joined to level 3 on ParentID = GroupID; the  *)
(* three shared column names get the suffixes _4 and _3.                   *)
recon3(groups) ==
    Merge(groups_level_4(groups), groups_level_3(groups),
          LAMBDA l, r : l.ParentID = r.GroupID,
          LAMBDA l, r : [ContextID |-> l.ContextID,
                         GroupID_4 |-> l.GroupID, ParentID_4 |-> l.ParentID,
                         GroupName_4 |-> l.GroupName,
                         GroupID_3 |-> r.GroupID, ParentID_3 |-> r.ParentID,
                         GroupName_3 |-> r.GroupName],
          "left", NaNGroup)

(* recon2: joined to level 2 on ParentID_3 = GroupID.  recon3 has no       *)
(* column named GroupID, ParentID or GroupName, so no suffix is applied    *)
(* and the level-2 columns keep their plain names.                         *)
recon2(groups) ==
    Merge(recon3(groups), groups_level_2(groups),
          LAMBDA l, r : l.ParentID_3 = r.GroupID,
          LAMBDA l, r : [ContextID |-> l.ContextID,
                         GroupID_4 |-> l.GroupID_4, ParentID_4 |-> l.ParentID_4,
                         GroupName_4 |-> l.GroupName_4,
                         GroupID_3 |-> l.GroupID_3, ParentID_3 |-> l.ParentID_3,
                         GroupName_3 |-> l.GroupName_3,
                         GroupID |-> r.GroupID, ParentID |-> r.ParentID,
                         GroupName |-> r.GroupName],
          "left", NaNGroup)

(* recon1: joined to level 1 on ParentID = GroupID (the level-2 parent);   *)
(* now the plain names clash and get the suffixes _2 and _1.  prettyg      *)
(* projects the nine columns and renames them.                             *)
prettyg(groups) ==
    Merge(recon2(groups), groups_level_1(groups),
          LAMBDA l, r : l.ParentID = r.GroupID,
          LAMBDA l, r : [ContextID  |-> l.ContextID,
                         GroupID_1  |-> r.GroupID,
                         GroupID_2  |-> l.GroupID,
                         GroupID_3  |-> l.GroupID_3,
                         GroupID    |-> l.GroupID_4,
                         Dom_NonDom |-> r.GroupName,
                         Survey     |-> l.GroupName,
                         Year       |-> l.GroupName_3,
                         Location   |-> l.GroupName_4],
          "left", NaNGroup)

(* Order of the index (GroupID_1, GroupID_2, GroupID_3); NaN sorts last.   *)
KeyLess(a, b) ==
    LET k(x) == IF x = NaN THEN NGroups + 100 ELSE x
    IN  \/ k(a.GroupID_1) < k(b.GroupID_1)
        \/ /\ a.GroupID_1 = b.GroupID_1
           /\ \/ k(a.GroupID_2) < k(b.GroupID_2)
              \/ /\ a.GroupID_2 = b.GroupID_2
                 /\ k(a.GroupID_3) < k(b.GroupID_3)

(* set_index([...]).sort_index(): a stable sort by the index.              *)
RECURSIVE sort_index(_)
sort_index(df) ==
    IF df = <<>> THEN <<>>
    ELSE LET rest == sort_index(Tail(df))
             before == SelectSeq(rest, LAMBDA r : KeyLess(r, Head(df)))
             after  == SelectSeq(rest, LAMBDA r : ~KeyLess(r, Head(df)))
         IN  before \o <<Head(df)>> \o after

allgroups(G) == sort_index(prettyg(NormGroups(G)))

(* getGroups(year): all rows, or those whose Year text equals str(year).   *)
getGroups(G, year) ==
    IF year = None THEN allgroups(G)
    ELSE SelectSeq(allgroups(G), LAMBDA r : r.Year = str(year))

-----------------------------------------------------------------------------
(* The values a call returns.                                              *)

DataFrame(rows) == [kind |-> "DataFrame", rows |-> rows]
Series(rows)    == [kind |-> "Series", rows |-> rows]
Tuple(a, b)     == [kind |-> "tuple", rows |-> <<a, b>>]
NoneValue       == [kind |-> "None", rows |-> <<>>]
Raised(what)    == [kind |-> what, rows |-> <<>>]

(* getData(tablename): SELECT * FROM the named table.                      *)
getData(tablename) == db[tablename]

-----------------------------------------------------------------------------
(* getProfileID, getAnswerID                                               *)

(* Series.unique(): the distinct values in order of first appearance.      *)
RECURSIVE unique(_)
unique(s) ==
    IF s = <<>> THEN <<>>
    ELSE LET init == unique(SubSeq(s, 1, Len(s) - 1))
             last == s[Len(s)]
         IN  IF \E i \in DOMAIN init : init[i] = last THEN init
             ELSE Append(init, last)

(* The filter with the GroupID test forgotten.                             *)
allprofiles_anygroup(links) == SelectSeq(links, LAMBDA r : r.ProfileID # 0)

(* links[(links.GroupID != 0) & (links.ProfileID != 0)]                    *)
allprofiles(links) == SelectSeq(links, LAMBDA r : r.GroupID # 0 /\ r.ProfileID # 0)

(* links[(links.GroupID != 0) & (links.AnswerID != 0)]                     *)
allanswers(links) == SelectSeq(links, LAMBDA r : r.GroupID # 0 /\ r.AnswerID # 0)

(* allprofiles.loc[allprofiles.GroupID.isin(getGroups(year).GroupID),      *)
(*                 'ProfileID'].unique()                                   *)
profileid(links, G, year) ==
    LET ofyear == Values(getGroups(G, year), LAMBDA g : g.GroupID)
        sel    == SelectSeq(allprofiles(links), LAMBDA r : r.GroupID \in ofyear)
    IN  unique([i \in DOMAIN sel |-> sel[i].ProfileID])

(* With no year the filtered LinkTable rows themselves are returned.       *)
getProfileID(year) ==
    IF year = None THEN DataFrame(allprofiles(getData("LinkTable")))
    ELSE Series(profileid(getData("LinkTable"), getData("Groups"), year))

getAnswerID == DataFrame(allanswers(getData("LinkTable")))

-----------------------------------------------------------------------------
(* The database a behaviour starts from.                                   *)

NoTables ==
    [Groups |-> <<>>, LinkTable |-> <<>>, profiles |-> <<>>,
     ProfileUnitsOfMeasure |-> <<>>, Profiletable |-> <<>>,
     Answers |-> <<>>, Answers_blob |-> <<>>, Answers_char |-> <<>>]

NoFiles == [f \in {} |-> <<>>]
NoCall  == [fn |-> "none"]

(* Group names as stored: with and without surrounding blanks.             *)
Names == {<<"1">>, <<" ", "2", " ">>}

(* The years a caller passes: None or a number.                            *)
YearArgs == {None} \cup (1 .. MaxYear)

(* Groups tables of NGroups rows with GroupID 1..NGroups: a forest in      *)
(* which a parent has a smaller GroupID than its children; the first       *)
(* root's ParentID may be missing instead of 0.                            *)
ParentChoices(g) == IF g = 1 THEN {0, NaN} ELSE 0 .. (g - 1)

GroupsTables ==
    {[g \in 1 .. NGroups |->
        [GroupID |-> g, ParentID |-> P[g], GroupName |-> Nm[g], ContextID |-> 1]] :
     P \in {Q \in [1 .. NGroups -> {NaN} \cup (0 .. NGroups)] :
                \A g \in 1 .. NGroups : Q[g] \in ParentChoices(g)},
     Nm \in [1 .. NGroups -> Names]}

-----------------------------------------------------------------------------
(* SpecGroups: callers ask getGroups for the flattened hierarchy.          *)

InitGroups ==
    /\ db \in {[NoTables EXCEPT !.Groups = G] : G \in GroupsTables}
    /\ files = NoFiles
    /\ call = NoCall
    /\ pc = "idle"
    /\ local = <<>>
    /\ ret = NoneValue
    /\ stdout = <<>>

CallGetGroups ==
    \E year \in YearArgs :
        /\ pc = "idle"
        /\ pc' = "done"
        /\ call' = [fn |-> "getGroups", year |-> year]
        /\ ret' = DataFrame(getGroups(getData("Groups"), year))
        /\ UNCHANGED <<db, files, local, stdout>>

NextGroups == CallGetGroups

SpecGroups == InitGroups /\ [][NextGroups]_vars

-----------------------------------------------------------------------------
(* The tree a Groups table describes, read off the parent links alone.     *)

GroupIDs(G) == {G[i].GroupID : i \in DOMAIN G}

RowsOf(G, g) == {i \in DOMAIN G : G[i].GroupID = g}

RowOf(G, g) == G[CHOOSE i \in DOMAIN G : G[i].GroupID = g]

IsRoot(r) == r.ParentID = 0 \/ r.ParentID = NaN

(* Level of group g: 1 for a root, one more than its parent's otherwise;   *)
(* a parent that is no group of the table puts g outside every level.      *)
RECURSIVE Depth(_, _)
Depth(G, g) ==
    IF g \notin GroupIDs(G) THEN 99
    ELSE IF IsRoot(RowOf(G, g)) THEN 1
    ELSE 1 + Depth(G, RowOf(G, g).ParentID)

(* The ancestor of g at level lvl (g itself when it is at that level).     *)
RECURSIVE Ancestor(_, _, _)
Ancestor(G, g, lvl) ==
    IF Depth(G, g) <= lvl THEN g ELSE Ancestor(G, RowOf(G, g).ParentID, lvl)

(* A valid strict 4-level tree: GroupIDs are unique and not 0, every       *)
(* non-root's ParentID is exactly one group, one level up, and no group    *)
(* lies below level 4.                                                     *)
ValidTree(G) ==
    /\ 0 \notin GroupIDs(G)
    /\ \A i \in DOMAIN G :
        /\ Cardinality(RowsOf(G, G[i].GroupID)) = 1
        /\ IsRoot(G[i]) \/ Cardinality(RowsOf(G, G[i].ParentID)) = 1
        /\ Depth(G, G[i].GroupID) <= 4

(* C3: for a valid strict 4-level tree, getGroups() with no year returns   *)
(* exactly one row per level-4 group and nothing else, and each row's      *)
(* Dom_NonDom, Survey and Year are present and are the (stripped) names of *)
(* that group's level-1, level-2 and level-3 ancestors.                    *)
C3_OneRowPerLocation ==
    (call.fn = "getGroups" /\ call.year = None /\ ValidTree(db.Groups)) =>
        LET G == db.Groups
            rows == ret.rows
            name(g) == strip(RowOf(G, g).GroupName)
        IN  /\ \A g \in GroupIDs(G) :
                  Depth(G, g) = 4 =>
                      Cardinality({i \in DOMAIN rows : rows[i].GroupID = g}) = 1
            /\ \A i \in DOMAIN rows :
                  /\ rows[i].GroupID \in GroupIDs(G)
                  /\ Depth(G, rows[i].GroupID) = 4
                  /\ rows[i].Dom_NonDom # NaNName
                  /\ rows[i].Survey # NaNName
                  /\ rows[i].Year # NaNName
                  /\ rows[i].Dom_NonDom = name(Ancestor(G, rows[i].GroupID, 1))
                  /\ rows[i].Survey = name(Ancestor(G, rows[i].GroupID, 2))
                  /\ rows[i].Year = name(Ancestor(G, rows[i].GroupID, 3))

(* A valid tree with two locations whose year name was stored with blanks. *)
C3_Witness ==
    /\ call.fn = "getGroups" /\ call.year = None /\ ValidTree(db.Groups)
    /\ Len(ret.rows) >= 2
    /\ \E i \in DOMAIN ret.rows :
          ret.rows[i].Year #
              RowOf(db.Groups, Ancestor(db.Groups, ret.rows[i].GroupID, 3)).GroupName

-----------------------------------------------------------------------------
(* SpecIDs: callers ask the identifier resolver, over a strict 4-level     *)
(* tree (one root, one survey, two year groups named alike or not, NLoc    *)
(* locations, the first under the first year group) and a LinkTable of at  *)
(* most MaxLinks rows.                                                     *)

(* A set of rows as a table, in a fixed row order.                         *)
RECURSIVE SetToSeq(_)
SetToSeq(S) ==
    IF S = {} THEN <<>>
    ELSE LET x == CHOOSE y \in S : TRUE IN <<x>> \o SetToSeq(S \ {x})

Locations == 5 .. (4 + NLoc)

TreeTables ==
    {[g \in 1 .. (4 + NLoc) |->
        [GroupID   |-> g,
         ParentID  |-> IF g = 1 THEN 0 ELSE IF g = 2 THEN 1
                       ELSE IF g \in {3, 4} THEN 2 ELSE P[g],
         GroupName |-> IF g = 1 THEN <<"D">> ELSE IF g = 2 THEN <<"S">>
                       ELSE IF g = 3 THEN <<"1">> ELSE IF g = 4 THEN nm ELSE <<"L">>,
         ContextID |-> 1]] :
     P \in {Q \in [Locations -> {3, 4}] : Q[5] = 3}, nm \in Names}

(* A link row points at no group (0), at a year group, or at a location.   *)
LinkRows ==
    [ProfileID : 0 .. 2, AnswerID : 0 .. 1, GroupID : {0, 3, 5, 6}]

LinkTables ==
    {SetToSeq(S) : S \in {T \in SUBSET LinkRows : Cardinality(T) <= MaxLinks}}

InitIDs ==
    /\ db \in {[NoTables EXCEPT !.Groups = G, !.LinkTable = L] :
                  G \in TreeTables, L \in LinkTables}
    /\ files = NoFiles
    /\ call = NoCall
    /\ pc = "idle"
    /\ local = <<>>
    /\ ret = NoneValue
    /\ stdout = <<>>

CallGetProfileID ==
    \E year \in YearArgs :
        /\ pc = "idle"
        /\ pc' = "done"
        /\ call' = [fn |-> "getProfileID", year |-> year]
        /\ ret' = getProfileID(year)
        /\ UNCHANGED <<db, files, local, stdout>>

CallGetAnswerID ==
    /\ pc = "idle"
    /\ pc' = "done"
    /\ call' = [fn |-> "getAnswerID", year |-> None]
    /\ ret' = getAnswerID
    /\ UNCHANGED <<db, files, local, stdout>>

NextIDs == CallGetProfileID \/ CallGetAnswerID

SpecIDs == InitIDs /\ [][NextIDs]_vars

(* The identifiers a result lists, in order: the ProfileID (AnswerID)      *)
(* column of returned rows, or the returned series itself.                 *)
IdList(r, fn) ==
    IF r.kind = "Series" THEN r.rows
    ELSE [i \in DOMAIN r.rows |->
            IF fn = "getAnswerID" THEN r.rows[i].AnswerID ELSE r.rows[i].ProfileID]

IdSet(r, fn) == {IdList(r, fn)[i] : i \in DOMAIN IdList(r, fn)}

NoRepeats(s) == \A i, j \in DOMAIN s : s[i] = s[j] => i = j

(* The link rows that qualify: a group and the identifier both non-zero.   *)
QualifyingProfileLinks ==
    {i \in DOMAIN db.LinkTable :
        db.LinkTable[i].GroupID # 0 /\ db.LinkTable[i].ProfileID # 0}

QualifyingAnswerLinks ==
    {i \in DOMAIN db.LinkTable :
        db.LinkTable[i].GroupID # 0 /\ db.LinkTable[i].AnswerID # 0}

(* The groups of a year: the level-4 groups whose level-3 ancestor is      *)
(* named str(year), read off the tree.                                     *)
GroupsOfYear(G, year) ==
    {g \in GroupIDs(G) :
        /\ Depth(G, g) = 4
        /\ strip(RowOf(G, Ancestor(G, g, 3)).GroupName) = str(year)}

(* C4 (as claimed): every resolver call returns each qualifying            *)
(* identifier once, only identifiers of qualifying rows, and with a year   *)
(* exactly the ProfileIDs of qualifying rows in one of the year's groups.  *)
C4_DistinctIdentifiers ==
    /\ call.fn = "getProfileID" =>
          /\ NoRepeats(IdList(ret, call.fn))
          /\ IdSet(ret, call.fn) =
                {db.LinkTable[i].ProfileID :
                    i \in {j \in QualifyingProfileLinks :
                              call.year = None \/
                              db.LinkTable[j].GroupID \in
                                  GroupsOfYear(db.Groups, call.year)}}
    /\ call.fn = "getAnswerID" =>
          /\ NoRepeats(IdList(ret, call.fn))
          /\ IdSet(ret, call.fn) =
                {db.LinkTable[i].AnswerID : i \in QualifyingAnswerLinks}


(* The years of the tree, and whether they partition its level-4 groups:   *)
(* every location lies under a year group named str(y) for a year y.       *)
YearsOfTree(G) == {y \in 1 .. MaxYear : GroupsOfYear(G, y) # {}}

YearsPartition(G) ==
    \A g \in GroupIDs(G) :
        Depth(G, g) = 4 => \E y \in YearsOfTree(G) : g \in GroupsOfYear(G, y)

(* The union over the tree's years y of what getProfileID(y) returns.      *)
UnionPerYear ==
    UNION {IdSet(getProfileID(y), "getProfileID") : y \in YearsOfTree(db.Groups)}

(* C6 (as claimed): when the years partition all level-4 groups, the       *)
(* identifiers of getProfileID() equal the union of those of               *)
(* getProfileID(y) over the years y.                                       *)
C6_NoYearEqualsUnion ==
    (call.fn = "getProfileID" /\ call.year = None /\ YearsPartition(db.Groups)) =>
        IdSet(ret, call.fn) = UnionPerYear

(* Every qualifying link row points at a level-4 group.                    *)
LinksAtLocations ==
    \A i \in QualifyingProfileLinks :
        /\ db.LinkTable[i].GroupID \in GroupIDs(db.Groups)
        /\ Depth(db.Groups, db.LinkTable[i].GroupID) = 4

(* C6 (amended): the union over the years is contained in what             *)
(* getProfileID() returns, and the two are equal when every qualifying     *)
(* link row points at a level-4 group.                                     *)
C6_UnionWithinNoYear ==
    (call.fn = "getProfileID" /\ call.year = None /\ YearsPartition(db.Groups)) =>
        /\ UnionPerYear \subseteq IdSet(ret, call.fn)
        /\ LinksAtLocations => IdSet(ret, call.fn) = UnionPerYear

(* Two years, each with a profile of its own, all links at locations.      *)
C6_Witness ==
    /\ call.fn = "getProfileID" /\ call.year = None /\ YearsPartition(db.Groups)
    /\ LinksAtLocations
    /\ \E y1, y2 \in YearsOfTree(db.Groups) :
          /\ y1 # y2
          /\ IdSet(getProfileID(y1), "getProfileID") # {}
          /\ IdSet(getProfileID(y2), "getProfileID") # {}
          /\ IdSet(getProfileID(y1), "getProfileID") #
                IdSet(getProfileID(y2), "getProfileID")
    /\ IdSet(ret, call.fn) = UnionPerYear

-----------------------------------------------------------------------------
(* getMetaProfiles                                                         *)

(* The sorted distinct values of a column: the categories pd.Categorical   *)
(* gives it.                                                               *)
RECURSIVE SortedSeq(_)
SortedSeq(S) ==
    IF S = {} THEN <<>>
    ELSE LET m == CHOOSE x \in S : \A y \in S : x <= y
         IN  <<m>> \o SortedSeq(S \ {m})

(* pids = pd.Series(map(str, getProfileID(year))): the texts of the        *)
(* year's ProfileIDs; iterating the DataFrame returned for no year yields  *)
(* its column names instead.                                               *)
pids(year) ==
    LET got == getProfileID(year)
    IN  IF got.kind = "Series" THEN [i \in DOMAIN got.rows |-> str(got.rows[i])]
        ELSE <<<<"ProfileID">>, <<"AnswerID">>, <<"GroupID">>>>

(* metaprofiles[metaprofiles.ProfileId.isin(pids)]: the integer column is  *)
(* tested against the texts, a row matching when its ProfileId reads as    *)
(* one of them.                                                            *)
metaprofiles_of(year) ==
    LET ids == pids(year)
    IN  SelectSeq(getData("profiles"),
                  LAMBDA r : \E i \in DOMAIN ids : ids[i] = str(r.ProfileId))

(* cats: the Description of every lookup row whose UnitsID is a category,  *)
(* in the lookup table's row order.                                        *)
cats(categories) ==
    LET puom == getData("ProfileUnitsOfMeasure")
        sel  == SelectSeq(puom, LAMBDA u : \E i \in DOMAIN categories :
                                              categories[i] = u.UnitsID)
    IN  [i \in DOMAIN sel |-> sel[i].Description]

(* metaprofiles['UoM'].cat.categories = cats renames the categories by     *)
(* position: the k-th smallest code gets the k-th text of cats.            *)
RenameByPosition(code, categories, newcats) ==
    newcats[CHOOSE k \in DOMAIN categories : categories[k] = code]

(* units = None, as a value among the unit texts.                         *)
NoUnits == <<"None">>

kW  == <<"k", "W">>
kVA == <<"k", "V", "A">>
avg == <<" ", "a", "v", "g">>

SupportedAvg == {<<"V">>, <<"A">>, kVA, kW}
Hz == <<"H", "z">>

CheckSpelling == "Check spelling and choose V, A, kVA, Hz or kW as units, or leave blank to get profiles of all."

(* The UoM categories of the selected metadata rows.                       *)
categories_of(mp0) == SortedSeq(Values(mp0, LAMBDA r : r.UoM))

(* The metadata rows with UoM renamed to the category texts.               *)
Relabelled(mp0, categories, newcats) ==
    [i \in DOMAIN mp0 |->
        [Active |-> mp0[i].Active, ProfileId |-> mp0[i].ProfileId,
         RecorderID |-> mp0[i].RecorderID,
         UoM |-> RenameByPosition(mp0[i].UoM, categories, newcats)]]

(* metaprofiles[metaprofiles.UoM == uom]['ProfileId']                      *)
plistOf(metaprofiles, uom) ==
    LET sel == SelectSeq(metaprofiles, LAMBDA r : r.UoM = uom)
    IN  [i \in DOMAIN sel |-> sel[i].ProfileId]

(* The branch on units, once the metadata table is built.                  *)
UnitsBranch(metaprofiles, units) ==
    IF units = NoUnits
    THEN [ret |-> Tuple(metaprofiles,
                        [i \in DOMAIN metaprofiles |-> metaprofiles[i].ProfileId]),
          stdout |-> <<>>]
    ELSE IF units \in SupportedAvg
    THEN [ret |-> Tuple(metaprofiles, plistOf(metaprofiles, strip(units) \o avg)),
          stdout |-> <<>>]
    ELSE IF units = Hz
    THEN [ret |-> Tuple(metaprofiles, plistOf(metaprofiles, Hz)), stdout |-> <<>>]
    ELSE [ret |-> NoneValue, stdout |-> <<CheckSpelling>>]

(* Assigning categories of another length, or with a repeated text,        *)
(* raises ValueError before the units are looked at.                       *)
SetCategories(mp0, categories, newcats, units) ==
    IF Len(newcats) # Len(categories) \/ ~NoRepeats(newcats)
    THEN [ret |-> Raised("ValueError"), stdout |-> <<>>]
    ELSE UnitsBranch(Relabelled(mp0, categories, newcats), units)

WithCategories(mp0, categories, units) ==
    SetCategories(mp0, categories, cats(categories), units)

WithMeta(mp0, units) == WithCategories(mp0, categories_of(mp0), units)

(* getMetaProfiles(year, units): [ret, stdout].                            *)
getMetaProfiles(year, units) == WithMeta(metaprofiles_of(year), units)

-----------------------------------------------------------------------------
(* SpecMeta: callers ask getMetaProfiles, over a fixed tree (year 1 =      *)
(* location 5, year 2 = location 6), NProf profiles linked alternately to  *)
(* the two locations, and a units lookup table that has one row per unit   *)
(* code, in any row order.                                                 *)

MetaTree ==
    <<[GroupID |-> 1, ParentID |-> 0, GroupName |-> <<"D">>, ContextID |-> 1],
      [GroupID |-> 2, ParentID |-> 1, GroupName |-> <<"S">>, ContextID |-> 1],
      [GroupID |-> 3, ParentID |-> 2, GroupName |-> <<"1">>, ContextID |-> 1],
      [GroupID |-> 4, ParentID |-> 2, GroupName |-> <<" ", "2", " ">>, ContextID |-> 1],
      [GroupID |-> 5, ParentID |-> 3, GroupName |-> <<"L">>, ContextID |-> 1],
      [GroupID |-> 6, ParentID |-> 4, GroupName |-> <<"L">>, ContextID |-> 1]>>

MetaLinks ==
    [p \in 1 .. NProf |-> [ProfileID |-> p, AnswerID |-> 0, GroupID |-> 5 + (p % 2)]]

(* The labels of the lookup table, by unit code.                           *)
UnitLabels ==
    <<<<"V">> \o avg, kW \o avg, Hz, <<"A">> \o avg, kVA \o avg, <<"W">>, <<"J">>>>

UnitCodes == 1 .. NUnits

ProfilesTables ==
    {[p \in 1 .. NProf |->
        [Active |-> 1, ProfileId |-> p, RecorderID |-> 1, UoM |-> U[p]]] :
     U \in [1 .. NProf -> UnitCodes]}

(* Every ordering of the elements of S.                                    *)
RECURSIVE Arrangements(_)
Arrangements(S) ==
    IF S = {} THEN {<<>>}
    ELSE UNION {{<<x>> \o t : t \in Arrangements(S \ {x})} : x \in S}

UnitsTables ==
    {[i \in DOMAIN a |-> [UnitsID |-> a[i], Description |-> UnitLabels[a[i]]]] :
     a \in Arrangements(UnitCodes)}

UnitArgs == {NoUnits, <<"V">>, <<"A">>, kVA, kW, Hz, <<"W">>}

InitMeta ==
    /\ db \in {[NoTables EXCEPT !.Groups = MetaTree, !.LinkTable = MetaLinks,
                               !.profiles = P, !.ProfileUnitsOfMeasure = U] :
                  P \in ProfilesTables, U \in UnitsTables}
    /\ files = NoFiles
    /\ call = NoCall
    /\ pc = "idle"
    /\ local = <<>>
    /\ ret = NoneValue
    /\ stdout = <<>>

Returns(result) ==
    /\ ret' = result.ret
    /\ stdout' = result.stdout

CallGetMetaProfiles ==
    \E year \in YearArgs, units \in UnitArgs :
        /\ pc = "idle"
        /\ pc' = "done"
        /\ call' = [fn |-> "getMetaProfiles", year |-> year, units |-> units]
        /\ Returns(getMetaProfiles(year, units))
        /\ UNCHANGED <<db, files, local>>

NextMeta == CallGetMetaProfiles

SpecMeta == InitMeta /\ [][NextMeta]_vars

(* What a unit code resolves to through the lookup table: the Description  *)
(* of the row with that UnitsID.                                           *)
Resolves(code, label) ==
    \E k \in DOMAIN db.ProfileUnitsOfMeasure :
        /\ db.ProfileUnitsOfMeasure[k].UnitsID = code
        /\ db.ProfileUnitsOfMeasure[k].Description = label

(* C5 (as claimed): getMetaProfiles(year, 'kW') returns a profile list     *)
(* that holds only profiles of the year whose unit code resolves through   *)
(* the lookup table to 'kW avg', whatever the order of the lookup rows;    *)
(* an unsupported units text prints an error and returns no data.          *)
C5_OnlyKWProfiles ==
    /\ (call.fn = "getMetaProfiles" /\ call.units = kW /\ call.year # None) =>
          /\ ret.kind = "tuple"
          /\ \A i \in DOMAIN ret.rows[2] :
                \E j \in DOMAIN db.profiles :
                    /\ db.profiles[j].ProfileId = ret.rows[2][i]
                    /\ Resolves(db.profiles[j].UoM, kW \o avg)
                    /\ \E l \in QualifyingProfileLinks :
                          /\ db.LinkTable[l].ProfileID = ret.rows[2][i]
                          /\ db.LinkTable[l].GroupID \in
                                GroupsOfYear(db.Groups, call.year)
    /\ (call.fn = "getMetaProfiles" /\ call.units \notin UnitArgs \ {<<"W">>}) =>
          /\ ret.kind = "None"
          /\ stdout # <<>>

-----------------------------------------------------------------------------
(* getProfiles                                                             *)

(* for i in range(1,12)                                                    *)
RangeStart == 1
RangeStop == 12

(* ORDER BY pt.Datefield, pt.ProfileID                                     *)
RowBefore(a, b) ==
    \/ a.Datefield.month < b.Datefield.month
    \/ a.Datefield.month = b.Datefield.month /\ a.Datefield.day < b.Datefield.day
    \/ a.Datefield = b.Datefield /\ a.ProfileID < b.ProfileID

RECURSIVE OrderBy(_)
OrderBy(rows) ==
    IF rows = <<>> THEN <<>>
    ELSE LET rest == OrderBy(Tail(rows))
         IN  SelectSeq(rest, LAMBDA r : RowBefore(r, Head(rows)))
             \o <<Head(rows)>>
             \o SelectSeq(rest, LAMBDA r : ~RowBefore(r, Head(rows)))

(* The monthly query: the Profiletable rows of the listed profiles whose   *)
(* Datefield is in month i.                                                *)
MonthQuery(plist, i) ==
    OrderBy(SelectSeq(getData("Profiletable"),
                      LAMBDA r : /\ \E k \in DOMAIN plist : plist[k] = r.ProfileID
                                 /\ r.Datefield.month = i))

(* df = pd.merge(profiles, mp, left_on='ProfileID', right_on='ProfileId'), *)
(* an inner join, with the ProfileId column dropped.                       *)
JoinMeta(profiles, mp) ==
    Merge(profiles, mp,
          LAMBDA l, r : l.ProfileID = r.ProfileId,
          LAMBDA l, r : [ProfileID |-> l.ProfileID, Datefield |-> l.Datefield,
                         Unitsread |-> l.Unitsread, Valid |-> l.Valid,
                         Active |-> r.Active, RecorderID |-> r.RecorderID,
                         UoM |-> r.UoM],
          "inner", <<>>)

(* The units argument is not passed on: getMetaProfiles(year, units=None). *)
MetaOfCall(year, units) == getMetaProfiles(year, NoUnits)

(* The call starts: metadata and profile list are fetched, the loop is     *)
(* entered with df not yet assigned.  failing is the set of months whose   *)
(* query the server will fail.                                             *)
GetProfilesEnter(year, units, failing) ==
    LET meta == MetaOfCall(year, units)
    IN  /\ pc = "idle"
        /\ call' = [fn |-> "getProfiles", year |-> year, units |-> units]
        /\ stdout' = meta.stdout
        /\ ret' = NoneValue
        /\ IF meta.ret.kind = "tuple"
           THEN /\ pc' = "loop"
                /\ local' = [mp |-> meta.ret.rows[1], plist |-> meta.ret.rows[2],
                             i |-> RangeStart, bound |-> FALSE, df |-> <<>>,
                             failing |-> failing]
           ELSE /\ pc' = "raised"
                /\ local' = <<>>
        /\ UNCHANGED <<db, files>>

(* One pass of the loop body for month i: the query and the join assign    *)
(* df; an exception anywhere in the body is swallowed by "except: pass".   *)
GetProfilesMonth ==
    /\ pc = "loop"
    /\ local.i < RangeStop
    /\ IF local.i \in local.failing
       THEN local' = [local EXCEPT !.i = @ + 1]
       ELSE local' = [local EXCEPT !.i = @ + 1, !.bound = TRUE,
                         !.df = JoinMeta(MonthQuery(local.plist, local.i), local.mp)]
    /\ UNCHANGED <<db, files, call, pc, ret, stdout>>

(* return df: the value of the last pass that assigned it; if none did,    *)
(* the name is unbound.                                                    *)
GetProfilesReturn ==
    /\ pc = "loop"
    /\ local.i >= RangeStop
    /\ IF local.bound
       THEN pc' = "done" /\ ret' = DataFrame(local.df)
       ELSE pc' = "raised" /\ ret' = Raised("UnboundLocalError")
    /\ UNCHANGED <<db, files, call, local, stdout>>

-----------------------------------------------------------------------------
(* SpecProfiles: callers run getProfiles over the fixed tree of SpecMeta,  *)
(* a lookup table in UnitsID order, NProf profiles with units in rotation  *)
(* and, for every profile, one measurement in each month of a chosen set.  *)

Months == 1 .. 12

DataMonths == {1, 6, 11, 12}

FixedProfiles ==
    [p \in 1 .. NProf |->
        [Active |-> 1, ProfileId |-> p, RecorderID |-> 1,
         UoM |-> ((p - 1) % NUnits) + 1]]

SortedUnits ==
    [c \in UnitCodes |-> [UnitsID |-> c, Description |-> UnitLabels[c]]]

ProfiletableOf(ms) ==
    LET mseq == SortedSeq(ms)
    IN  [k \in 1 .. (Len(mseq) * NProf) |->
            LET m == mseq[((k - 1) \div NProf) + 1]
                p == ((k - 1) % NProf) + 1
            IN  [ProfileID |-> p, Datefield |-> [month |-> m, day |-> 1],
                 Unitsread |-> 10 * m + p, Valid |-> "Y"]]

(* The months whose query fails: at most MaxFail of the months asked for,  *)
(* or every one of them.                                                   *)
FailSets ==
    {S \in SUBSET (RangeStart .. (RangeStop - 1)) : Cardinality(S) <= MaxFail}
        \cup {RangeStart .. (RangeStop - 1)}

InitProfiles ==
    /\ db \in {[NoTables EXCEPT !.Groups = MetaTree, !.LinkTable = MetaLinks,
                               !.profiles = FixedProfiles,
                               !.ProfileUnitsOfMeasure = SortedUnits,
                               !.Profiletable = ProfiletableOf(ms)] :
                  ms \in SUBSET DataMonths}
    /\ files = NoFiles
    /\ call = NoCall
    /\ pc = "idle"
    /\ local = <<>>
    /\ ret = NoneValue
    /\ stdout = <<>>

CallGetProfiles ==
    \E year \in 1 .. MaxYear, units \in {NoUnits, kW, <<"V">>}, failing \in FailSets :
        GetProfilesEnter(year, units, failing)

NextProfiles == CallGetProfiles \/ GetProfilesMonth \/ GetProfilesReturn

SpecProfiles == InitProfiles /\ [][NextProfiles]_vars


(* A measurement row of the year's profiles that joins to a metadata row   *)
(* appears in the returned table with measurement and metadata columns.    *)
Returned(r) ==
    \E k \in DOMAIN local.mp :
        /\ local.mp[k].ProfileId = r.ProfileID
        /\ \E i \in DOMAIN ret.rows :
              ret.rows[i] = [ProfileID |-> r.ProfileID, Datefield |-> r.Datefield,
                             Unitsread |-> r.Unitsread, Valid |-> r.Valid,
                             Active |-> local.mp[k].Active,
                             RecorderID |-> local.mp[k].RecorderID,
                             UoM |-> local.mp[k].UoM]

(* The measurement rows of the year's profiles in the months ms.           *)
MeasurementsIn(ms) ==
    {j \in DOMAIN db.Profiletable :
        /\ db.Profiletable[j].Datefield.month \in ms
        /\ \E k \in DOMAIN local.mp :
              local.mp[k].ProfileId = db.Profiletable[j].ProfileID}

(* C1 (as claimed): when no monthly fetch fails, getProfiles returns the   *)
(* joined rows of every month 1..12: every measurement row of the year's   *)
(* profiles that joins to a metadata row is in the returned table.         *)
C1_AllTwelveMonths ==
    (pc \in {"done", "raised"} /\ local.failing = {}) =>
        /\ pc = "done"
        /\ \A j \in MeasurementsIn(Months) : Returned(db.Profiletable[j])

(* C2 (as claimed): when the fetch of one month fails, the call still      *)
(* returns, the result holds the rows of all other months, and the         *)
(* failure is reported.                                                    *)
C2_FailedMonthSkipped ==
    (pc \in {"done", "raised"} /\ Cardinality(local.failing) = 1) =>
        /\ pc = "done"
        /\ \A j \in MeasurementsIn(Months \ local.failing) :
              Returned(db.Profiletable[j])
        /\ stdout # <<>>

(* C9 (as claimed): getProfiles(year, units=u) returns only measurement    *)
(* rows of profiles whose unit of measurement is u.                        *)
C9_UnitsSelectProfiles ==
    (pc = "done" /\ call.units # NoUnits) =>
        \A i \in DOMAIN ret.rows : ret.rows[i].UoM = strip(call.units) \o avg

-----------------------------------------------------------------------------
(* anonAns, saveTables                                                     *)
(*                                                                         *)
(* A row of an answer table is [AnswerID, cells], cells mapping each       *)
(* question column (named by the text of its number) to the answer text.   *)

(* anstables, with k.lower() for the name the result is saved under.       *)
anstables ==
    <<[k |-> "Answers_blob", lower |-> "answers_blob", v |-> "blobQs.csv"],
      [k |-> "Answers_char", lower |-> "answers_char", v |-> "charQs.csv"]>>

(* The value written over an anonymised cell.                              *)
Sentinel == <<"a">>

(* Every rule row is kept, whatever its anonymise flag.                    *)
qs_unfiltered(csv) == csv

(* qs.loc[lambda qs: qs.anonymise == 1, :]                                 *)
qs_of(csv) == SelectSeq(csv, LAMBDA q : q.anonymise = 1)

(* pd.merge(getData('Answers'), qs, on QuestionaireID)                     *)
(*     [['AnswerID','ColumnNo','anonymise']]                               *)
qanon_of(csv) ==
    Merge(getData("Answers"), qs_of(csv),
          LAMBDA l, r : l.QuestionaireID = r.QuestionaireID,
          LAMBDA l, r : [AnswerID |-> l.AnswerID, ColumnNo |-> r.ColumnNo,
                         anonymise |-> r.anonymise],
          "inner", <<>>)

(* a[a.AnswerID == rows.AnswerID].index: the positions of the matches.     *)
IndexOf(a, AnswerID) == SelectSeq([i \in DOMAIN a |-> i], LAMBDA i : a[i].AnswerID = AnswerID)

(* a.set_value(index, col, value): the cell is set; a column the table     *)
(* does not have is added to it, empty (NaN) in every other row.           *)
set_value(a, index, col, value) ==
    [i \in DOMAIN a |->
        [AnswerID |-> a[i].AnswerID,
         cells |-> [c \in DOMAIN a[i].cells \cup {col} |->
                      IF i = index /\ c = col THEN value
                      ELSE IF c \in DOMAIN a[i].cells THEN a[i].cells[c]
                      ELSE NaNName]]]

(* datadict[k].fillna(np.nan): a None cell becomes NaN.                    *)
fillna(a) ==
    [i \in DOMAIN a |->
        [AnswerID |-> a[i].AnswerID,
         cells |-> [c \in DOMAIN a[i].cells |->
                      IF a[i].cells[c] = <<"None">> THEN NaNName ELSE a[i].cells[c]]]]

(* saveTables([name], [a]): written as data/tables/<name>.feather.         *)
saveTables(name, a) == ((name \o ".feather") :> fillna(a)) @@ files

AnonAnsEnter ==
    /\ pc = "idle"
    /\ call' = [fn |-> "anonAns"]
    /\ pc' = "table"
    /\ local' = [t |-> 1, a |-> <<>>, qanon |-> <<>>, j |-> 1]
    /\ ret' = NoneValue
    /\ stdout' = <<>>
    /\ UNCHANGED <<db, files>>

(* for k, v in anstables.items(): the table and its rules are read.        *)
AnonAnsTable ==
    /\ pc = "table"
    /\ local.t <= Len(anstables)
    /\ local' = [local EXCEPT !.a = getData(anstables[local.t].k),
                              !.qanon = qanon_of(files[anstables[local.t].v]),
                              !.j = 1]
    /\ pc' = "rows"
    /\ UNCHANGED <<db, files, call, ret, stdout>>

(* for i, rows in qanon.iterrows(): one cell is overwritten; .index[0] of  *)
(* an empty index raises IndexError, which nothing catches.                *)
AnonAnsRow ==
    /\ pc = "rows"
    /\ local.j <= Len(local.qanon)
    /\ LET rows == local.qanon[local.j]
           idx  == IndexOf(local.a, rows.AnswerID)
       IN  IF idx = <<>>
           THEN /\ pc' = "raised"
                /\ ret' = Raised("IndexError")
                /\ UNCHANGED local
           ELSE /\ local' = [local EXCEPT
                                !.a = set_value(local.a, idx[1], str(rows.ColumnNo), Sentinel),
                                !.j = @ + 1]
                /\ UNCHANGED <<pc, ret>>
    /\ UNCHANGED <<db, files, call, stdout>>

(* saveTables([k.lower() + '_anon'], [a])                                  *)
AnonAnsSave ==
    /\ pc = "rows"
    /\ local.j > Len(local.qanon)
    /\ files' = saveTables(anstables[local.t].lower \o "_anon", local.a)
    /\ local' = [local EXCEPT !.t = @ + 1]
    /\ pc' = "table"
    /\ UNCHANGED <<db, call, ret, stdout>>

AnonAnsReturn ==
    /\ pc = "table"
    /\ local.t > Len(anstables)
    /\ pc' = "done"
    /\ ret' = NoneValue
    /\ UNCHANGED <<db, files, call, local, stdout>>

-----------------------------------------------------------------------------
(* SpecAnon: one run of anonAns over NAns answer records, answer tables    *)
(* keyed by AnswerID that may lack the last record's row or a question     *)
(* column, and rule files of anonymise flags per (QuestionaireID,          *)
(* ColumnNo).                                                              *)

AnswersTables ==
    {[n \in 1 .. NAns |-> [AnswerID |-> n, QuestionaireID |-> Q[n]]] :
     Q \in [1 .. NAns -> {1, 2}]}

(* An answer table with the rows 1..last and the given question columns;   *)
(* every cell holds a text of its own.                                     *)
AnswerTable(last, cols) ==
    [n \in 1 .. last |->
        [AnswerID |-> n, cells |-> [c \in cols |-> <<"t">> \o str(n) \o c]]]

BlobTables ==
    {AnswerTable(last, cols) :
     last \in {NAns - 1, NAns}, cols \in {{str(1)}, {str(1), str(2)}}}

CharTables == {AnswerTable(last, {str(1), str(2)}) : last \in {NAns - 1, NAns}}

RuleRows == [QuestionaireID : {1, 2}, ColumnNo : {1, 2}, anonymise : {0, 1}]

BlobRules ==
    {SetToSeq(S) : S \in {T \in SUBSET RuleRows : Cardinality(T) <= MaxRules}}

CharRules == {<<>>, <<[QuestionaireID |-> 1, ColumnNo |-> 1, anonymise |-> 1]>>}

InitAnon ==
    /\ db \in {[NoTables EXCEPT !.Answers = A, !.Answers_blob = B, !.Answers_char = C] :
                  A \in AnswersTables, B \in BlobTables, C \in CharTables}
    /\ files \in {("blobQs.csv" :> rb) @@ ("charQs.csv" :> rc) :
                     rb \in BlobRules, rc \in CharRules}
    /\ call = NoCall
    /\ pc = "idle"
    /\ local = <<>>
    /\ ret = NoneValue
    /\ stdout = <<>>

NextAnon ==
    AnonAnsEnter \/ AnonAnsTable \/ AnonAnsRow \/ AnonAnsSave \/ AnonAnsReturn

SpecAnon == InitAnon /\ [][NextAnon]_vars

(* The file the pass writes for the t-th answer table.                     *)
AnonFile(t) == anstables[t].lower \o "_anon" \o ".feather"

(* The rule file marks cell (AnswerID, col) for anonymisation: a rule with *)
(* anonymise = 1 names the column, for the questionnaire of an Answers     *)
(* record with that AnswerID.                                              *)
Flagged(t, AnswerID, col) ==
    LET rules == files[anstables[t].v]
    IN  \E q \in DOMAIN rules :
            /\ rules[q].anonymise = 1
            /\ str(rules[q].ColumnNo) = col
            /\ \E n \in DOMAIN db.Answers :
                  /\ db.Answers[n].AnswerID = AnswerID
                  /\ db.Answers[n].QuestionaireID = rules[q].QuestionaireID

RuleColumns(t) ==
    {str(files[anstables[t].v][q].ColumnNo) : q \in DOMAIN files[anstables[t].v]}

(* C7: in every table the pass has saved, each flagged cell of a row of    *)
(* the answer table holds the sentinel, every other cell of the table is   *)
(* as in the database, and the file's name is <table, lower-cased>_anon,   *)
(* which is not the name of the input table nor of any database table.     *)
C7_FlaggedCellsOverwritten ==
    \A t \in DOMAIN anstables :
        AnonFile(t) \in DOMAIN files =>
            LET saved == files[AnonFile(t)]
                orig  == db[anstables[t].k]
            IN  /\ DOMAIN saved = DOMAIN orig
                /\ \A i \in DOMAIN orig :
                      /\ saved[i].AnswerID = orig[i].AnswerID
                      /\ \A c \in DOMAIN orig[i].cells \cup RuleColumns(t) :
                            IF Flagged(t, orig[i].AnswerID, c)
                            THEN c \in DOMAIN saved[i].cells /\ saved[i].cells[c] = Sentinel
                            ELSE c \in DOMAIN orig[i].cells =>
                                    saved[i].cells[c] = orig[i].cells[c]
                /\ anstables[t].lower \o "_anon" # anstables[t].k
                /\ anstables[t].lower \o "_anon" \notin DOMAIN db

(* The pass has finished and saved a blob table in which one cell was      *)
(* overwritten and another, in the same column, kept.                      *)
C7_Witness ==
    /\ pc = "done"
    /\ AnonFile(1) \in DOMAIN files
    /\ \E i, j \in DOMAIN files[AnonFile(1)] :
          \E c \in DOMAIN db.Answers_blob[i].cells :
              /\ files[AnonFile(1)][i].cells[c] = Sentinel
              /\ files[AnonFile(1)][j].cells[c] = db.Answers_blob[j].cells[c]
              /\ files[AnonFile(1)][j].cells[c] # Sentinel

(* A rule of the t-th table, resolved through Answers, names a column the  *)
(* answer table lacks or an AnswerID that has no row in it.                *)
MissingData(t) ==
    LET a == db[anstables[t].k]
        q == qanon_of(files[anstables[t].v])
    IN  \E j \in DOMAIN q :
            \/ \A i \in DOMAIN a : a[i].AnswerID # q[j].AnswerID
            \/ \E i \in DOMAIN a : str(q[j].ColumnNo) \notin DOMAIN a[i].cells

(* C8 (as claimed): when a rule references a missing column or a missing   *)
(* AnswerID, the pass ends with a 'rule references missing data' error     *)
(* and writes no output table for that answer table.                       *)
C8_MissingDataReported ==
    \A t \in DOMAIN anstables :
        MissingData(t) =>
            /\ pc # "done"
            /\ pc = "raised" => ret.kind = "RuleReferencesMissingData"
            /\ AnonFile(t) \notin DOMAIN files

-----------------------------------------------------------------------------
(* profilePeriod                                                           *)
(*                                                                         *)
(* A Datefield is [day, slot]: the day and the time of day of a reading,   *)
(* slot 0 being 00:00 and slot LastSlot 23:55 ("Days start at 00:00 and    *)
(* end at 23:55").  A date argument 'YYYY-MM-DD' is the number of its day. *)

Before(a, b) == a.day < b.day \/ (a.day = b.day /\ a.slot < b.slot)

(* dataframe['Datefield'].min(), .max()                                    *)
MinDate(dataframe) ==
    LET ds == Values(dataframe, LAMBDA r : r.Datefield)
    IN  CHOOSE d \in ds : \A e \in ds : ~Before(e, d)

MaxDate(dataframe) ==
    LET ds == Values(dataframe, LAMBDA r : r.Datefield)
    IN  CHOOSE d \in ds : \A e \in ds : ~Before(d, e)

(* datetime.strptime(startdate + ' 00:00', ..), (enddate + ' 23:55', ..)   *)
StartOfDay(date) == [day |-> date, slot |-> 0]
EndOfDay(date)   == [day |-> date, slot |-> LastSlot]

(* The start (end) is used as given, without the move to the data's own.   *)
Unclamped(t, dataEdge) == t

(* if datetime.date(startdate) == datetime.date(dataStart):                *)
(*     startdate = dataStart          (and likewise for the end)           *)
Clamp(t, dataEdge) == IF t.day = dataEdge.day THEN dataEdge ELSE t

PeriodStart == "Period start must be before period end."
ChooseStart == "Choose a start date that falls within this period."
ChooseEnd   == "Choose an end date that falls within this period."

(* The checks and the selection, on the converted dates: [ret, stdout].    *)
SelectPeriod(dataframe, start0, end0, dataStart, dataEnd) ==
    LET start == Clamp(start0, dataStart)
        end   == Clamp(end0, dataEnd)
    IN  IF Before(end0, start0)
        THEN [ret |-> NoneValue, stdout |-> <<PeriodStart>>]
        ELSE IF Before(start, dataStart) \/ Before(dataEnd, start)
        THEN [ret |-> NoneValue, stdout |-> <<ChooseStart>>]
        ELSE IF Before(end, dataStart) \/ Before(dataEnd, end)
        THEN [ret |-> NoneValue, stdout |-> <<ChooseEnd>>]
        ELSE [ret |-> DataFrame(SelectSeq(dataframe,
                          LAMBDA r : ~Before(r.Datefield, start) /\ ~Before(end, r.Datefield))),
              stdout |-> <<>>]

profilePeriod(dataframe, startdate, enddate) ==
    SelectPeriod(dataframe, StartOfDay(startdate), EndOfDay(enddate),
                 MinDate(dataframe), MaxDate(dataframe))

-----------------------------------------------------------------------------
(* SpecPeriod: callers select a period from a profile dataframe of one to  *)
(* MaxRows readings over NDays days, with start and end days that may lie  *)
(* before or after the data.                                               *)

Datefields == [day : 1 .. NDays, slot : 0 .. LastSlot]

Dataframes ==
    {[i \in DOMAIN ds |-> [ProfileID |-> 1, Datefield |-> ds[i], Unitsread |-> i]] :
     ds \in {SetToSeq(S) : S \in {T \in SUBSET Datefields :
                                     T # {} /\ Cardinality(T) <= MaxRows}}}

DateArgs == 0 .. (NDays + 1)

(* local holds the dataframe the caller has at hand.                       *)
InitPeriod ==
    /\ db = NoTables
    /\ files = NoFiles
    /\ call = NoCall
    /\ pc = "idle"
    /\ local \in {[dataframe |-> d] : d \in Dataframes}
    /\ ret = NoneValue
    /\ stdout = <<>>

CallProfilePeriod ==
    \E startdate \in DateArgs, enddate \in DateArgs :
        /\ pc = "idle"
        /\ pc' = "done"
        /\ call' = [fn |-> "profilePeriod", dataframe |-> local.dataframe,
                    startdate |-> startdate, enddate |-> enddate]
        /\ Returns(profilePeriod(local.dataframe, startdate, enddate))
        /\ UNCHANGED <<db, files, local>>

NextPeriod == CallProfilePeriod

SpecPeriod == InitPeriod /\ [][NextPeriod]_vars

(* The days the data spans, from the day of its first reading to the day   *)
(* of its last.                                                            *)
DataDays(dataframe) ==
    {d \in DateArgs :
        /\ \E i \in DOMAIN dataframe : dataframe[i].Datefield.day <= d
        /\ \E i \in DOMAIN dataframe : dataframe[i].Datefield.day >= d}

(* C10: profilePeriod prints a message and returns no table when the start *)
(* day is after the end day or either lies outside the days the data       *)
(* spans; otherwise it returns exactly the input rows, in order, whose     *)
(* Datefield is from startdate 00:00 to enddate 23:55 inclusive.           *)
C10_PeriodSubset ==
    call.fn = "profilePeriod" =>
        IF \/ call.startdate > call.enddate
           \/ call.startdate \notin DataDays(call.dataframe)
           \/ call.enddate \notin DataDays(call.dataframe)
        THEN ret.kind = "None" /\ stdout # <<>>
        ELSE /\ ret.kind = "DataFrame"
             /\ stdout = <<>>
             /\ ret.rows =
                   SelectSeq(call.dataframe,
                             LAMBDA r : /\ r.Datefield.day >= call.startdate
                                        /\ r.Datefield.day <= call.enddate
                                        /\ r.Datefield.slot \in 0 .. LastSlot)

(* The start day is the data's first day, the data beginning after 00:00;  *)
(* the end day is before the data's last day; some rows are returned and   *)
(* some are not.                                                           *)
C10_Witness ==
    /\ call.fn = "profilePeriod"
    /\ ret.kind = "DataFrame"
    /\ \E i \in DOMAIN call.dataframe :
          /\ call.dataframe[i].Datefield.day = call.startdate
          /\ call.dataframe[i].Datefield.slot > 0
          /\ \A j \in DOMAIN call.dataframe :
                ~Before(call.dataframe[j].Datefield, call.dataframe[i].Datefield)
    /\ \E j \in DOMAIN call.dataframe : call.dataframe[j].Datefield.day > call.enddate
    /\ ret.rows # <<>>
    /\ Len(ret.rows) < Len(call.dataframe)

=============================================================================
